---- MODULE Spec2Model ----
(***************************************************************************)
(* Content & Upload Lifecycle Store of storylofts-backend.                 *)
(*                                                                         *)
(* The relational store (video_content, tags, video_tags, upload_sessions) *)
(* with its triggers, the DatabaseService write paths (create / update /   *)
(* delete with tag replacement), the list / search query builder and the   *)
(* upload "complete" handlers.                                             *)
(*                                                                         *)
(* Transactions are modelled as PostgreSQL READ COMMITTED: the statements  *)
(* of an open transaction are collected in an overlay that only the        *)
(* transaction itself sees; COMMIT applies the overlay to the committed    *)
(* tables; ROLLBACK drops it.  A statement that needs a row another open   *)
(* transaction has written is not enabled until that transaction ends.     *)
(***************************************************************************)
EXTENDS Integers, Sequences, FiniteSets, TLC

\* ------------------------------------------------------------------------
\* Bounds
\* ------------------------------------------------------------------------
MaxVideos == 2          \* ids the video_content table can hand out
MaxOps == 3             \* requests started in one behaviour
MaxTagsPerReq == 1      \* length of a request's tags array
MaxRows == 2            \* rows of a data set that is listed with every filter
MaxListLimit == 2       \* limit of a request over such a data set
MaxPage == 3            \* pages a caller walks through
MaxTotal == 25          \* rows of a data set that is only paged through
MaxLimit == 10          \* limit of a request over such a data set
MaxSessions == 2        \* upload sessions that are opened
MaxTicks == 3           \* steps of the clock

Users == {"u1", "u2"}
NoUser == ""            \* req.user?.sub of an unauthenticated request
Procs == {"p1", "p2"}   \* requests in flight at the same time

Visibilities == {"public", "private", "unlisted"}
Statuses == {"uploading", "processing", "ready", "failed"}
Titles == {<<"x">>, <<"X", "y">>}

NoRow == [absent |-> TRUE]
Absent == "absent"      \* an optional input that was not supplied
NoTags == [given |-> FALSE, names |-> <<>>]   \* a request without a tags key

\* content.fileSize of a request: a number, or undefined (NULL in the INSERT)
Size(n) == [null |-> FALSE, n |-> n]
NullSize == [null |-> TRUE, n |-> 0]

Max(a, b) == IF a >= b THEN a ELSE b
Min(a, b) == IF a <= b THEN a ELSE b
Range(s) == {s[i] : i \in DOMAIN s}

\* ------------------------------------------------------------------------
\* Tag names and slugs
\* ------------------------------------------------------------------------
\* A name is a sequence of characters.
TagNames ==
    {<<"T">>, <<"t">>, <<"a", " ", "b">>, <<"a", "-", "b">>, <<"B">>, <<"b">>}

\* The names that requests of concurrent connections carry.
ConcurrentTagNames == {<<"T">>, <<"t">>, <<"a", " ", "b">>}

toLowerCaseChar(c) ==
    CASE c = "T" -> "t"
      [] c = "B" -> "b"
      [] c = "X" -> "x"
      [] OTHER -> c

toLowerCase(s) == [i \in DOMAIN s |-> toLowerCaseChar(s[i])]

IsWhitespace(c) == c \in {" "}
SlugChars == {"a", "b", "t", "x", "y", "0", "1", "-"}

RECURSIVE DropWhitespace(_)
DropWhitespace(s) ==
    IF s = <<>> THEN <<>>
    ELSE IF IsWhitespace(Head(s)) THEN DropWhitespace(Tail(s)) ELSE s

\* .replace(/\s+/g, '-')
RECURSIVE ReplaceWhitespace(_)
ReplaceWhitespace(s) ==
    IF s = <<>> THEN <<>>
    ELSE IF IsWhitespace(Head(s))
         THEN <<"-">> \o ReplaceWhitespace(DropWhitespace(Tail(s)))
         ELSE <<Head(s)>> \o ReplaceWhitespace(Tail(s))

IsSlugChar(c) == c \in SlugChars

\* .replace(/[^a-z0-9-]/g, '')
StripNonSlug(s) == SelectSeq(s, IsSlugChar)

slugOf(name) == StripNonSlug(ReplaceWhitespace(toLowerCase(name)))

\* The rows of known whose slug is the slug derived from name n
TagOfSlug(n, known) == {t \in known : slugOf(t) = slugOf(n)}

\* INITIAL_DATA: the seeded tags ('Tutorial', 'tutorial'), ('Business',
\* 'business') etc.
SeedTags == {<<"T">>, <<"B">>}

RECURSIVE SeqsUpTo(_, _)
SeqsUpTo(S, n) ==
    IF n = 0 THEN {<<>>}
    ELSE LET shorter == SeqsUpTo(S, n - 1)
         IN shorter \cup {Append(s, x) : s \in shorter, x \in S}

TagLists == SeqsUpTo(ConcurrentTagNames, MaxTagsPerReq)

\* ------------------------------------------------------------------------
\* State
\* ------------------------------------------------------------------------
VARIABLES
    video_content,  \* committed table: id -> row or NoRow
    tags,           \* committed table: the names of the tag rows
    usage_count,    \* committed column tags.usage_count, by tag name
    video_tags,     \* committed table: set of <<video_id, tag name>>
    video_views,    \* committed table: the view events, oldest first
    req,            \* per connection: the request in flight and its overlay
    nextId,         \* next id of video_content
    ops,            \* requests started so far
    query,          \* the list / search request a caller is paging through
    upload_sessions,\* committed table: session id -> row or NoRow
    now,            \* the clock, in units of the session lifetime
    fin             \* per upload handler: the "complete" request in flight

vars == <<video_content, tags, usage_count, video_tags, video_views, req,
          nextId, ops, query, upload_sessions, now, fin>>

\* What the content store's write paths leave alone.
aside == <<query, upload_sessions, now, fin>>

tables == <<video_content, tags, usage_count, video_tags, video_views>>

VideoIds == DOMAIN video_content

Idle ==
    [op |-> "idle", pc |-> "idle", user |-> NoUser, id |-> 0,
     fields |-> {}, tags |-> NoTags, res |-> "none",
     cw |-> FALSE, crow |-> NoRow, ins |-> {}, del |-> {}, newTags |-> {},
     snap |-> {}, tx |-> TRUE, size |-> NullSize, empty |-> FALSE,
     client |-> FALSE, ret |-> {}]

ClearOverlay(r) ==
    [r EXCEPT !.cw = FALSE, !.crow = NoRow, !.ins = {}, !.del = {},
              !.newTags = {}, !.snap = {}]

Others(p) == Procs \ {p}

\* ------------------------------------------------------------------------
\* Triggers (update_tag_usage_count)
\* ------------------------------------------------------------------------
TriggerOnInsert(c) == c + 1

TriggerOnInsertOnly(c) == c

TriggerOnDelete(c) == Max(c - 1, 0)

\* usage_count after the row triggers of one statement or transaction that
\* deleted the rows del and then inserted the rows ins.  (video_id, tag_id)
\* is the primary key and one transaction touches one video, so a tag has at
\* most one deleted and one inserted row.
CountsAfter(cnt, del, ins) ==
    [t \in DOMAIN cnt |->
        LET d == IF \E r \in del : r[2] = t
                 THEN TriggerOnDelete(cnt[t]) ELSE cnt[t]
        IN IF \E r \in ins : r[2] = t THEN TriggerOnInsert(d) ELSE d]

\* ------------------------------------------------------------------------
\* What a connection sees inside its transaction
\* ------------------------------------------------------------------------
ViewTags(r) == tags \cup r.newTags

ViewVideoTags(r) == (video_tags \ r.del) \cup r.ins

ViewContent(r, v) ==
    IF r.cw /\ r.id = v THEN r.crow
    ELSE IF v \in VideoIds THEN video_content[v] ELSE NoRow

RowsOfVideo(rows, v) == {x \in rows : x[1] = v}

updateWithoutTransaction == FALSE

\* client.query('BEGIN') in updateVideoContent / createVideoContent
updateInTransaction == TRUE

createInTransaction == TRUE

InTransaction(r) ==
    r.tx /\ (IF r.op = "update" THEN updateInTransaction
             ELSE createInTransaction)

\* COMMIT: the overlay of r becomes visible to everybody at once.
CommitTables(r) ==
    /\ video_content' =
          IF r.cw THEN [video_content EXCEPT ![r.id] = r.crow]
          ELSE video_content
    /\ tags' = tags \cup r.newTags
    /\ video_tags' = (video_tags \ r.del) \cup r.ins
    /\ usage_count' = CountsAfter(usage_count, r.del, r.ins)
    /\ video_views' = video_views

\* The end of one statement of connection p, which leaves the request as r:
\* inside a transaction the effect stays in the overlay, outside of one the
\* statement commits by itself.
AfterStatement(p, r) ==
    IF InTransaction(r)
    THEN /\ req' = [req EXCEPT ![p] = r]
         /\ UNCHANGED tables
    ELSE /\ CommitTables(r)
         /\ req' = [req EXCEPT ![p] = ClearOverlay(r)]

\* const client = await this.pool.connect(), the line before the try block
poolConnect(r) == [r EXCEPT !.client = TRUE]

\* A release that sits on the success path only, after the last statement.
releaseAfterSuccess(r) == [r EXCEPT !.client = r.client /\ r.res = "error"]

\* finally { client.release() }
release(r) == [r EXCEPT !.client = FALSE]

\* The end of request r with result res: the connection keeps what the
\* caller was told, and the finally block gives the client back.
Finished(r, res) ==
    release([ClearOverlay(r) EXCEPT !.pc = "done", !.res = res,
                                    !.fields = {}, !.tags = NoTags,
                                    !.tx = TRUE, !.size = NullSize])

\* ROLLBACK and the end of the request with result res.
RollbackWith(p, res) ==
    /\ req' = [req EXCEPT ![p] = Finished(req[p], res)]
    /\ UNCHANGED tables


\* ------------------------------------------------------------------------
\* Request inputs
\* ------------------------------------------------------------------------
\* Partial<VideoContentInput> without the tags key: a set of <<key, value>>.
FieldChoices ==
    {{}, {<<"visibility", "public">>}, {<<"status", "ready">>}}

TagChoices == {NoTags} \cup {[given |-> TRUE, names |-> l] : l \in TagLists}

camelToSnake(key) ==
    CASE key = "userId" -> "user_id"
      [] key = "createdAt" -> "created_at"
      [] OTHER -> key

\* SET col = value, ... of the dynamic UPDATE
ApplyFields(row, f) ==
    [k \in DOMAIN row |->
        IF \E kv \in f : camelToSnake(kv[1]) = k
        THEN (CHOOSE kv \in f : camelToSnake(kv[1]) = k)[2]
        ELSE row[k]]

\* empty: the request is an update that carries no field and no tags key.
NewRequest(op, u, v, f, tg) ==
    poolConnect(
        [Idle EXCEPT !.op = op, !.user = u, !.id = v, !.fields = f,
                     !.tags = tg,
                     !.empty = (op = "update" /\ f = {} /\ ~tg.given)])

Free(p) == req[p].pc \in {"idle", "done"}

\* The pool hands out a client that nobody holds.
Available(p) == Free(p) /\ ~req[p].client

\* Connections are interchangeable: a request takes p2 only while p1 is
\* not to be had.
CanStart(p) ==
    /\ Available(p)
    /\ ops < MaxOps
    /\ \A q \in Procs : (q = "p1" /\ p # "p1") => ~Available(q)

\* ------------------------------------------------------------------------
\* Row locks: what makes a statement of p wait for another transaction
\* ------------------------------------------------------------------------
ContentRowLocked(p, v) ==
    \E q \in Others(p) :
        \/ req[q].cw /\ req[q].id = v
        \/ RowsOfVideo(req[q].ins, v) # {}

VideoTagRowsLocked(p, rows) ==
    \E q \in Others(p) : rows \cap (req[q].del \cup req[q].ins) # {}

SlugLocked(p, name) ==
    \E q \in Others(p) : \E n \in req[q].newTags : slugOf(n) = slugOf(name)

\* ------------------------------------------------------------------------
\* updateVideoTags and createTagWithClient, statement by statement
\* ------------------------------------------------------------------------
\* INSERT INTO tags ... ON CONFLICT (slug) DO NOTHING
createTagWithClient(seen, name) ==
    IF \E n \in seen : slugOf(n) = slugOf(name) THEN seen ELSE seen \cup {name}

RECURSIVE EnsureAll(_, _)
EnsureAll(seen, names) ==
    IF names = <<>> THEN seen
    ELSE EnsureAll(createTagWithClient(seen, Head(names)), Tail(names))

\* SELECT id FROM tags WHERE name = ANY($1)
SelectTagIds(seen, names) == {n \in seen : n \in Range(names)}

\* DELETE FROM video_tags WHERE video_id = $1 (and the return on [])
DeleteTags(p) ==
    LET r == req[p]
        rows == RowsOfVideo(ViewVideoTags(r), r.id)
    IN /\ r.pc = "deltags"
       /\ ~VideoTagRowsLocked(p, rows)
       /\ AfterStatement(p, [r EXCEPT !.del = r.del \cup (rows \cap video_tags),
                                      !.ins = r.ins \ rows,
                                      !.pc = IF r.tags.names = <<>> THEN "commit"
                                             ELSE "ensure"])
       /\ UNCHANGED <<nextId, ops, aside>>

\* The DELETE found rows another transaction has locked: it keeps the rows of
\* its snapshot and waits.
DeleteTagsBlock(p) ==
    LET r == req[p]
        rows == RowsOfVideo(ViewVideoTags(r), r.id)
    IN /\ r.pc = "deltags"
       /\ VideoTagRowsLocked(p, rows)
       /\ req' = [req EXCEPT ![p] = [r EXCEPT !.pc = "deltags_wait",
                                              !.snap = rows]]
       /\ UNCHANGED <<tables, nextId, ops, aside>>

\* The lock holder has ended: the DELETE removes the rows of its snapshot
\* that still exist and sees no row committed after the snapshot.
DeleteTagsResume(p) ==
    LET r == req[p]
        rows == r.snap \cap video_tags
    IN /\ r.pc = "deltags_wait"
       /\ ~VideoTagRowsLocked(p, r.snap)
       /\ AfterStatement(p, [r EXCEPT !.del = r.del \cup rows,
                                      !.snap = {},
                                      !.pc = IF r.tags.names = <<>> THEN "commit"
                                             ELSE "ensure"])
       /\ UNCHANGED <<nextId, ops, aside>>

\* for (const tagName of tags) createTagWithClient(client, tagName)
EnsureTags(p) ==
    LET r == req[p]
        seen == EnsureAll(ViewTags(r), r.tags.names)
    IN /\ r.pc = "ensure"
       /\ \A n \in seen \ ViewTags(r) : ~SlugLocked(p, n)
       /\ AfterStatement(p, [r EXCEPT !.newTags = r.newTags \cup (seen \ tags),
                                      !.pc = "instags"])
       /\ UNCHANGED <<nextId, ops, aside>>

\* SELECT id FROM tags ...; INSERT INTO video_tags for every row found.
\* A missing video row is a foreign-key violation, a row that is already
\* there a primary-key violation: both throw.
InsertTags(p) ==
    LET r == req[p]
        rows == {<<r.id, n>> : n \in SelectTagIds(ViewTags(r), r.tags.names)}
    IN /\ r.pc = "instags"
       /\ ~VideoTagRowsLocked(p, rows)
       /\ IF rows # {} /\ (ViewContent(r, r.id) = NoRow
                           \/ rows \cap ViewVideoTags(r) # {})
          THEN RollbackWith(p, "error")
          ELSE AfterStatement(p, [r EXCEPT !.ins = r.ins \cup rows,
                                           !.pc = "commit"])
       /\ UNCHANGED <<nextId, ops, aside>>

\* ------------------------------------------------------------------------
\* getVideoContent
\* ------------------------------------------------------------------------
\* WHERE vc.id = $1 AND (visibility = 'public' [OR user_id = $2])
CanRead(row, userId) ==
    IF userId # NoUser
    THEN row.visibility = "public" \/ row.user_id = userId
    ELSE row.visibility = "public"

getVideoContent(id, userId) ==
    IF id \in VideoIds /\ video_content[id] # NoRow
                       /\ CanRead(video_content[id], userId)
    THEN video_content[id]
    ELSE NoRow

\* ------------------------------------------------------------------------
\* updateVideoContent
\* ------------------------------------------------------------------------
\* BEGIN, the field list, and the early return of an update without fields
\* and without tags.
StartUpdate(p, u, v, f, tg) ==
    /\ CanStart(p)
    /\ req' = [req EXCEPT ![p] =
                 [NewRequest("update", u, v, f, tg) EXCEPT
                     !.pc = IF f = {} /\ ~tg.given THEN "get"
                            ELSE IF f # {} THEN "update"
                            ELSE "deltags"]]
    /\ ops' = ops + 1
    /\ UNCHANGED <<tables, nextId, aside>>

\* UPDATE video_content SET ... WHERE id = $n AND user_id = $n+1 RETURNING *
UpdateRow(p) ==
    LET r == req[p]
        row == ViewContent(r, r.id)
    IN /\ r.pc = "update"
       /\ ~ContentRowLocked(p, r.id)
       /\ IF row # NoRow /\ row.user_id = r.user
          THEN AfterStatement(p, [r EXCEPT !.cw = TRUE,
                                     !.crow = ApplyFields(row, r.fields),
                                     !.pc = IF r.tags.given THEN "deltags"
                                            ELSE "commit"])
          ELSE RollbackWith(p, "null")
       /\ UNCHANGED <<nextId, ops, aside>>

\* ------------------------------------------------------------------------
\* createVideoContent
\* ------------------------------------------------------------------------
\* content.x || default of the VALUES list
OrDefault(x, default) == IF x = Absent THEN default ELSE x

\* The VALUES list of the INSERT.
CreateRequest(u, title, vis, st, tg, size) ==
    [NewRequest("create", u, 0, {}, tg) EXCEPT
        !.pc = "insert",
        !.size = size,
        !.crow = [user_id |-> u,
                  title |-> title,
                  status |-> OrDefault(st, "uploading"),
                  visibility |-> OrDefault(vis, "private"),
                  created_at |-> 0,
                  file_size |-> size.n]]

\* BEGIN and the VALUES list of the INSERT.
StartCreate(p, u, title, vis, st, tg, size) ==
    /\ CanStart(p)
    /\ req' = [req EXCEPT ![p] = CreateRequest(u, title, vis, st, tg, size)]
    /\ ops' = ops + 1
    /\ UNCHANGED <<tables, nextId, aside>>

\* createVideoContent of the older version of the service: the same
\* statements on one client, without BEGIN and COMMIT.
StartCreateNoTransaction(p, u, title, vis, st, tg, size) ==
    /\ CanStart(p)
    /\ req' = [req EXCEPT ![p] =
                 [CreateRequest(u, title, vis, st, tg, size) EXCEPT
                     !.tx = FALSE]]
    /\ ops' = ops + 1
    /\ UNCHANGED <<tables, nextId, aside>>

\* file_size BIGINT NOT NULL CHECK (file_size > 0): the CHECK
FileSizeCheck(n) == n > 0

\* INSERT INTO video_content (...) VALUES (...) RETURNING *
InsertContent(p) ==
    LET r == req[p]
    IN /\ r.pc = "insert"
       /\ nextId <= MaxVideos
       /\ IF r.size.null \/ ~FileSizeCheck(r.size.n)
          THEN /\ RollbackWith(p, "error")
               /\ UNCHANGED nextId
          ELSE /\ nextId' = nextId + 1
               /\ AfterStatement(p, [r EXCEPT
                     !.id = nextId, !.cw = TRUE,
                     !.crow.created_at = nextId,
                     !.pc = IF r.tags.given /\ r.tags.names # <<>>
                            THEN "deltags" ELSE "commit"])
       /\ UNCHANGED <<ops, aside>>

\* ------------------------------------------------------------------------
\* COMMIT, the read that follows it, and failures
\* ------------------------------------------------------------------------
\* tags: row.tags || [] of formatVideoContent, as a set of names; the row
\* of INSERT ... RETURNING * has the columns of video_content and no tags.
formatVideoContent(row) ==
    [tags |-> IF "tags" \in DOMAIN row THEN row.tags ELSE {}]

\* ret: the tags of the Content that createVideoContent returns, which is
\* formatVideoContent(videoData) of the inserted row.
Commit(p) ==
    LET r == req[p]
    IN /\ r.pc = "commit"
       /\ CommitTables(r)
       /\ req' = [req EXCEPT ![p] =
                    IF r.op = "update"
                    THEN [ClearOverlay(r) EXCEPT !.pc = "get"]
                    ELSE [Finished(r, "ok") EXCEPT
                            !.ret = formatVideoContent(r.crow).tags]]
       /\ UNCHANGED <<nextId, ops, aside>>

\* return this.getVideoContent(id, userId)
GetAfterUpdate(p) ==
    LET r == req[p]
    IN /\ r.pc = "get"
       /\ req' = [req EXCEPT ![p] =
                    Finished(r, IF getVideoContent(r.id, r.user) = NoRow
                                THEN "null" ELSE "ok")]
       /\ UNCHANGED <<tables, nextId, ops, aside>>

InStatement(r) ==
    r.pc \in {"insert", "update", "deltags", "deltags_wait", "ensure",
              "instags", "commit"}

\* A statement throws (constraint, connection, timeout, deadlock victim):
\* catch -> ROLLBACK -> throw.
Fail(p) ==
    /\ InStatement(req[p])
    /\ req[p].pc = "commit" => InTransaction(req[p])
    /\ RollbackWith(p, "error")
    /\ UNCHANGED <<nextId, ops, aside>>

\* ------------------------------------------------------------------------
\* deleteVideoContent
\* ------------------------------------------------------------------------
ViewsKept(views, v) == views

\* video_views.video_id REFERENCES video_content(id) ON DELETE CASCADE
CascadeViews(views, v) == SelectSeq(views, LAMBDA e : e.video_id # v)

\* DELETE FROM video_content WHERE id = $1 AND user_id = $2 RETURNING id,
\* with ON DELETE CASCADE to video_tags and its row trigger.
DeleteVideoContent(p, u, v) ==
    LET row == video_content[v]
        hit == row # NoRow /\ row.user_id = u
        rows == RowsOfVideo(video_tags, v)
    IN /\ CanStart(p)
       /\ v \in VideoIds
       /\ ~ContentRowLocked(p, v)
       /\ ~VideoTagRowsLocked(p, rows)
       /\ ops' = ops + 1
       /\ req' = [req EXCEPT ![p] =
                    release([NewRequest("delete", u, v, {}, NoTags) EXCEPT
                                !.pc = "done",
                                !.res = IF hit THEN "true" ELSE "false"])]
       /\ IF hit
          THEN /\ video_content' = [video_content EXCEPT ![v] = NoRow]
               /\ video_tags' = video_tags \ rows
               /\ usage_count' = CountsAfter(usage_count, rows, {})
               /\ video_views' = CascadeViews(video_views, v)
               /\ UNCHANGED tags
          ELSE UNCHANGED tables
       /\ UNCHANGED <<nextId, aside>>


\* ------------------------------------------------------------------------
\* Pagination (listVideoContent / searchVideoContent)
\* ------------------------------------------------------------------------
OffsetPageTimesLimit(page, limit) == page * limit

\* const offset = (page - 1) * limit
Offset(page, limit) == (page - 1) * limit

\* Math.ceil(total / limit)
TotalPages(total, limit) ==
    IF total % limit = 0 THEN total \div limit ELSE (total \div limit) + 1

\* hasNext: page * limit < total
HasNext(page, limit, total) == page * limit < total

\* hasPrev: page > 1
HasPrev(page) == page > 1

\* LIMIT $n OFFSET $n+1 over the rows in ORDER BY order
LimitOffset(ordered, limit, offset) ==
    IF offset >= Len(ordered) THEN <<>>
    ELSE SubSeq(ordered, offset + 1, Min(offset + limit, Len(ordered)))

\* The PaginatedResponse of one call.
PageResponse(ordered, page, limit, total) ==
    [items |-> LimitOffset(ordered, limit, Offset(page, limit)),
     page |-> page,
     limit |-> limit,
     total |-> total,
     totalPages |-> TotalPages(total, limit),
     hasNext |-> HasNext(page, limit, total),
     hasPrev |-> HasPrev(page)]

\* ------------------------------------------------------------------------
\* The WHERE clauses
\* ------------------------------------------------------------------------
\* Is the text s contained in the text t (both lower case)?
Contains(t, s) ==
    \E i \in 1..(Len(t) - Len(s) + 1) : SubSeq(t, i, i + Len(s) - 1) = s

\* vc.title ILIKE '%search%'
ILike(title, search) == Contains(toLowerCase(title), toLowerCase(search))

\* to_tsvector('english', title) @@ plainto_tsquery('english', search), for
\* texts of plain words: every word of the query is a word of the title.
\* (Stemming and stop words are not modelled.)
RECURSIVE Words(_)
Words(t) ==
    IF t = <<>> THEN {}
    ELSE LET n == IF \E i \in DOMAIN t : IsWhitespace(t[i])
                  THEN (CHOOSE i \in DOMAIN t :
                           /\ IsWhitespace(t[i])
                           /\ \A j \in 1..(i - 1) : ~IsWhitespace(t[j])) - 1
                  ELSE Len(t)
             rest == DropWhitespace(SubSeq(t, n + 1, Len(t)))
         IN (IF n = 0 THEN {} ELSE {SubSeq(t, 1, n)}) \cup Words(rest)

FullTextMatch(title, search) ==
    /\ Words(toLowerCase(search)) # {}
    /\ Words(toLowerCase(search)) \subseteq Words(toLowerCase(title))

TextMatch(row, search) ==
    FullTextMatch(row.title, search) \/ ILike(row.title, search)

\* t.name = ANY($n) over the LEFT JOIN of video_tags and tags
HasAnyTag(v, names) ==
    \E n \in Range(names) : n \in tags /\ <<v, n>> \in video_tags

ListAnyRowOfAuthenticated(row, userId) ==
    userId # NoUser \/ row.visibility = "public"

\* "User filter" of listVideoContent
ListUserFilter(row, userId) ==
    IF userId # NoUser THEN row.user_id = userId
    ELSE row.visibility = "public"

\* "User access control" of searchVideoContent
SearchUserFilter(row, userId) ==
    IF userId # NoUser
    THEN row.visibility = "public" \/ row.user_id = userId
    ELSE row.visibility = "public"

ListWhere(v, userId, o) ==
    LET row == video_content[v]
    IN /\ row # NoRow
       /\ ListUserFilter(row, userId)
       /\ (o.status # Absent => row.status = o.status)
       /\ (o.visibility # Absent => row.visibility = o.visibility)
       /\ (o.tags # <<>> => HasAnyTag(v, o.tags))
       /\ (o.search # <<>> => TextMatch(row, o.search))

SearchWhere(v, userId, o) ==
    LET row == video_content[v]
    IN /\ row # NoRow
       /\ TextMatch(row, o.search)
       /\ SearchUserFilter(row, userId)
       /\ (o.visibility # Absent => row.visibility = o.visibility)
       /\ (o.tags # <<>> => HasAnyTag(v, o.tags))

ListMatching(userId, o) == {v \in VideoIds : ListWhere(v, userId, o)}

SearchMatching(userId, o) == {v \in VideoIds : SearchWhere(v, userId, o)}

\* ------------------------------------------------------------------------
\* ORDER BY
\* ------------------------------------------------------------------------
\* The collation rank of the titles in use.
TitleRank(t) == IF t = <<"x">> THEN 1 ELSE 2

\* ORDER BY vc.${camelToSnake(sortBy)}: the sort key of row v
ListKey(v, sortBy) ==
    IF camelToSnake(sortBy) = "title" THEN TitleRank(video_content[v].title)
    ELSE video_content[v].created_at

\* ts_rank(...): a title the query matches as text ranks above one it only
\* matches by ILIKE.
Relevance(v, o) ==
    IF FullTextMatch(video_content[v].title, o.search) THEN 1 ELSE 0

KeyBase == MaxTotal + MaxVideos + 1

\* ORDER BY relevance_score DESC, vc.created_at DESC as one key
SearchKey(v, o) == Relevance(v, o) * KeyBase + video_content[v].created_at

\* The rows a statement may return first.
FirstRows(S, key, desc) ==
    {x \in S : \A y \in S : IF desc THEN key[x] >= key[y]
                             ELSE key[x] <= key[y]}

\* Every order of the rows S that ORDER BY key allows.  Rows with equal keys
\* come in no particular order, and not in the same order in every query.
RECURSIVE Orders(_, _, _)
Orders(S, key, desc) ==
    IF S = {} THEN {<<>>}
    ELSE UNION {{<<x>> \o rest : rest \in Orders(S \ {x}, key, desc)} :
                    x \in FirstRows(S, key, desc)}

ListOrders(userId, o) ==
    Orders(ListMatching(userId, o),
           [v \in VideoIds |-> IF video_content[v] = NoRow THEN 0
                               ELSE ListKey(v, o.sortBy)],
           o.sortOrder = "desc")

SearchOrders(userId, o) ==
    Orders(SearchMatching(userId, o),
           [v \in VideoIds |-> IF video_content[v] = NoRow THEN 0
                               ELSE SearchKey(v, o)],
           TRUE)

\* ------------------------------------------------------------------------
\* listVideoContent and searchVideoContent as calls of a caller who walks
\* through the pages 1, 2, ... of one request
\* ------------------------------------------------------------------------
\* createdAfter: a bound on created_at that the query string may carry (0
\* when it carries none); listVideoContent does not read it.
DefaultOptions ==
    [status |-> Absent, visibility |-> Absent, tags |-> <<>>, search |-> <<>>,
     sortBy |-> "created_at", sortOrder |-> "desc", limit |-> 20,
     createdAfter |-> 0]

NoQuery == [kind |-> "none", user |-> NoUser, opts |-> DefaultOptions,
            got |-> <<>>, id |-> 0, res |-> "", track |-> "none",
            total |-> 0]

\* The caller asks for page 1, and for the next page while the last response
\* says there is one.
Continues(kind, userId, o) ==
    \/ query.kind = "none"
    \/ /\ query.kind = kind /\ query.user = userId /\ query.opts = o
       /\ query.got # <<>>
       /\ query.got[Len(query.got)].hasNext

listVideoContent(userId, o) ==
    LET page == Len(query.got) + 1
        total == Cardinality(ListMatching(userId, o))
    IN /\ Continues("list", userId, o)
       /\ page <= MaxPage
       /\ \E ordered \in ListOrders(userId, o) :
            query' = [NoQuery EXCEPT !.kind = "list", !.user = userId, !.opts = o,
                      !.got = Append(query.got,
                                     PageResponse(ordered, page, o.limit, total))]
       /\ UNCHANGED <<tables, req, nextId, ops, upload_sessions, now, fin>>

searchVideoContent(userId, o) ==
    LET page == Len(query.got) + 1
        total == Cardinality(SearchMatching(userId, o))
    IN /\ Continues("search", userId, o)
       /\ page <= MaxPage
       /\ \E ordered \in SearchOrders(userId, o) :
            query' = [NoQuery EXCEPT !.kind = "search", !.user = userId, !.opts = o,
                      !.got = Append(query.got,
                                     PageResponse(ordered, page, o.limit, total))]
       /\ UNCHANGED <<tables, req, nextId, ops, upload_sessions, now, fin>>

\* GET /api/content/:id: the row, or 404 when getVideoContent returns null.
\* What a call of db.trackVideoView may meet.
TrackOutcomes == {"recorded", "connect fails", "insert fails"}

\* db.trackVideoView: the view events after the call.  An error of the INSERT
\* is logged and dropped.
trackVideoView(views, viewData, outcome) ==
    IF outcome = "recorded" THEN Append(views, viewData) ELSE views

\* db.trackVideoView: whether the call throws.  pool.connect() is called
\* before the try block.
trackVideoViewThrows(outcome) == outcome = "connect fails"

ViewErrorPropagates(threw) == IF threw THEN "Error" ELSE "OK"

\* try { await db.trackVideoView(...) } catch (viewError) { console.warn }
\* of the route, and the response that follows it.
ViewErrorCaught(threw) == "OK"

\* GET /:id of the content routes: the lookup, the 404, the view event, the
\* 200.
GetContent(userId, id) ==
    LET content == getVideoContent(id, userId)
        got == [NoQuery EXCEPT !.kind = "get", !.user = userId, !.id = id]
    IN /\ query.kind = "none"
       /\ IF content = NoRow
          THEN /\ query' = [got EXCEPT !.res = "NotFound"]
               /\ UNCHANGED video_views
          ELSE IF content.visibility = "public" \/ userId # NoUser
          THEN \E outcome \in TrackOutcomes :
                 /\ video_views' =
                       trackVideoView(video_views,
                                      [video_id |-> id,
                                       viewer_user_id |-> userId], outcome)
                 /\ query' = [got EXCEPT
                       !.track = outcome,
                       !.res = ViewErrorCaught(trackVideoViewThrows(outcome))]
          ELSE /\ query' = [got EXCEPT !.res = "OK"]
               /\ UNCHANGED video_views
       /\ UNCHANGED <<video_content, tags, usage_count, video_tags, req,
                      nextId, ops, upload_sessions, now, fin>>

\* ------------------------------------------------------------------------
\* The routes that keep the records in the Map videoStorage.  video_content
\* stands for the Map.
\* ------------------------------------------------------------------------
\* POST /complete: videoStorage.set(videoId, videoContent) with fileSize: 0.
CompleteInMemory(userId, vis) ==
    /\ nextId <= MaxVideos
    /\ video_content' =
          [video_content EXCEPT ![nextId] =
              [user_id |-> userId, title |-> <<"x">>,
               status |-> "processing",
               visibility |-> OrDefault(vis, "private"),
               created_at |-> nextId, file_size |-> 0]]
    /\ nextId' = nextId + 1
    /\ UNCHANGED <<tags, usage_count, video_tags, video_views, req, ops, query,
                   upload_sessions, now, fin>>

\* GET /:id: 404 without a record, 403 unless the record is public, the
\* caller's own or unlisted.
GetContentInMemory(userId, id) ==
    LET video == IF id \in VideoIds THEN video_content[id] ELSE NoRow
        canAccess == \/ video.visibility = "public"
                     \/ userId # NoUser /\ video.user_id = userId
                     \/ video.visibility = "unlisted"
    IN /\ query' = [NoQuery EXCEPT
                      !.kind = "get", !.user = userId, !.id = id,
                      !.res = IF video = NoRow THEN "NotFound"
                              ELSE IF ~canAccess THEN "Forbidden"
                              ELSE "OK"]
       /\ UNCHANGED <<tables, req, nextId, ops, upload_sessions, now, fin>>

\* ------------------------------------------------------------------------
\* Upload sessions: GET /api/upload/url and POST /api/upload/complete
\* ------------------------------------------------------------------------
\* new Date(Date.now() + 3600000)
SessionTTL == 3600000

TickMs == SessionTTL \div 2

Handlers == {"h1", "h2"}

\* The two versions of src/routes/upload.ts
Builds == {"part_008", "part_009"}

\* One call of POST /complete: its position, its locals (found: uploadSession
\* is not null; created: videoContent.id), its response, and what held when
\* the call arrived (valid: the caller's session was there, owned and not
\* expired; later: a call on the session had already answered 201).
NoCall ==
    [build |-> "", pc |-> "idle", user |-> NoUser, session |-> 0,
     found |-> FALSE, created |-> 0, res |-> "none",
     valid |-> FALSE, later |-> FALSE, fileSize |-> 0]

\* db.createUploadSession: the row of a new session.
createUploadSession(userId, expiresAt, fileSize) ==
    Append(upload_sessions, [user_id |-> userId, expires_at |-> expiresAt,
                             file_size |-> fileSize])

\* db.getUploadSession(fileName, userId): the session of that file, if it
\* belongs to the user and has not passed its expiry.
getUploadSession(s, userId) ==
    IF /\ s \in DOMAIN upload_sessions
       /\ upload_sessions[s] # NoRow
       /\ upload_sessions[s].user_id = userId
       /\ now <= upload_sessions[s].expires_at
    THEN upload_sessions[s]
    ELSE NoRow

\* db.deleteUploadSession(sessionId)
deleteUploadSession(s) ==
    IF s \in DOMAIN upload_sessions
    THEN [upload_sessions EXCEPT ![s] = NoRow]
    ELSE upload_sessions

\* The fileSize of a request to GET /url or POST /complete: the schemas admit
\* a positive integer or nothing (0 stands for undefined).
UploadSizes == {0, 1}

\* GET /url
GetUploadUrl(u, fileSize) ==
    /\ Len(upload_sessions) < MaxSessions
    /\ upload_sessions' = createUploadSession(u, now + SessionTTL, fileSize)
    /\ UNCHANGED <<tables, req, nextId, ops, query, now, fin>>

Tick ==
    /\ now < MaxTicks * TickMs
    /\ now' = now + TickMs
    /\ UNCHANGED <<tables, req, nextId, ops, query, upload_sessions, fin>>

\* What the statements of a handler throw, as the words of error.message.
Errors == {{"violates", "check", "constraint"}, {"connection", "terminated"}}

\* The catch block of the handler.
CatchResponse(err) == IF "duplicate" \in err THEN "Conflict" ELSE "Error"

Ends(h, res) == fin' = [fin EXCEPT ![h].pc = "done", ![h].res = res]

SameBuild(b) == \A g \in Handlers : fin[g].build \in {"", b}

\* The ids a caller may send: those of the sessions opened so far, and one
\* that is the id of no session.
SessionIds == {0} \cup DOMAIN upload_sessions

Arrives(h, b, u, s, fileSize) ==
    [NoCall EXCEPT !.build = b, !.user = u, !.session = s,
                   !.fileSize = fileSize,
                   !.valid = getUploadSession(s, u) # NoRow,
                   !.later = \E g \in Handlers :
                                fin[g].session = s /\ fin[g].res = "Created"]

\* fileSize || uploadSession.fileSize || 0
FirstTruthy(fileSize, sessionFileSize) ==
    IF fileSize # 0 THEN fileSize ELSE sessionFileSize

\* part_008: the call arrives and looks its session up; 404 without one.
Complete(h, u, s, fileSize) ==
    LET uploadSession == getUploadSession(s, u)
        call == Arrives(h, "part_008", u, s, fileSize)
    IN /\ fin[h].pc = "idle"
       /\ SameBuild("part_008")
       /\ s \in SessionIds
       /\ fin' = [fin EXCEPT ![h] =
                    IF uploadSession = NoRow
                    THEN [call EXCEPT !.pc = "done", !.res = "NotFound"]
                    ELSE [call EXCEPT
                            !.pc = "verify", !.found = TRUE,
                            !.fileSize =
                               FirstTruthy(fileSize,
                                           uploadSession.file_size)]]
       /\ UNCHANGED <<tables, req, nextId, ops, query, upload_sessions, now>>

\* part_009: the call arrives and looks its session up; an error of the
\* lookup is logged, and the handler goes on with or without a session.
CompleteFixed(h, u, s, fileSize) ==
    LET uploadSession == getUploadSession(s, u)
        call == Arrives(h, "part_009", u, s, fileSize)
    IN /\ fin[h].pc = "idle"
       /\ SameBuild("part_009")
       /\ s \in SessionIds
       /\ \E threw \in BOOLEAN :
            fin' = [fin EXCEPT ![h] =
                      [call EXCEPT
                         !.pc = "verify",
                         !.found = ~threw /\ uploadSession # NoRow,
                         !.fileSize =
                            IF ~threw /\ uploadSession # NoRow
                            THEN FirstTruthy(fileSize, uploadSession.file_size)
                            ELSE fileSize]]
       /\ UNCHANGED <<tables, req, nextId, ops, query, upload_sessions, now>>

\* backblazeService.verifyFileExists(fileId): part_008 answers 422 when it
\* throws, part_009 logs and goes on.
VerifyFileExists(h) ==
    /\ fin[h].pc = "verify"
    /\ \E exists \in BOOLEAN :
         IF fin[h].build = "part_008" /\ ~exists
         THEN Ends(h, "Unprocessable")
         ELSE fin' = [fin EXCEPT ![h].pc = "create"]
    /\ UNCHANGED <<tables, req, nextId, ops, query, upload_sessions, now>>

\* db.createVideoContent({..., filename: fileName, status: 'processing',
\* tags: []}) of the handler: the row is there when it returns.
CreateFromUpload(h) ==
    /\ fin[h].pc = "create"
    /\ nextId <= MaxVideos
    /\ IF FileSizeCheck(fin[h].fileSize)
       THEN /\ video_content' =
                  [video_content EXCEPT ![nextId] =
                      [user_id |-> fin[h].user, title |-> <<"x">>,
                       status |-> "processing", visibility |-> "private",
                       created_at |-> nextId, filename |-> fin[h].session,
                       file_size |-> fin[h].fileSize]]
            /\ nextId' = nextId + 1
            /\ fin' = [fin EXCEPT ![h].pc = "cleanup", ![h].created = nextId]
       ELSE /\ Ends(h, CatchResponse({"violates", "check", "constraint"}))
            /\ UNCHANGED <<video_content, nextId>>
    /\ UNCHANGED <<tags, usage_count, video_tags, video_views, req, ops, query,
                   upload_sessions, now>>

\* db.createVideoContent throws: nothing is written, the catch block answers.
CreateFails(h) ==
    /\ fin[h].pc = "create"
    /\ \E err \in Errors : Ends(h, CatchResponse(err))
    /\ UNCHANGED <<tables, req, nextId, ops, query, upload_sessions, now>>

\* "Clean up upload session" and the 201.  part_009 skips the call without a
\* session.
CleanUp(h) ==
    /\ fin[h].pc = "cleanup"
    /\ upload_sessions' =
          IF fin[h].build = "part_009" /\ ~fin[h].found THEN upload_sessions
          ELSE deleteUploadSession(fin[h].session)
    /\ Ends(h, "Created")
    /\ UNCHANGED <<tables, req, nextId, ops, query, now>>

\* db.deleteUploadSession throws: part_008 answers from its catch block,
\* part_009 logs and answers 201.
CleanUpFails(h) ==
    /\ fin[h].pc = "cleanup"
    /\ fin[h].build = "part_009" => fin[h].found
    /\ \E err \in Errors :
         Ends(h, IF fin[h].build = "part_009" THEN "Created"
                 ELSE CatchResponse(err))
    /\ UNCHANGED <<tables, req, nextId, ops, query, upload_sessions, now>>

\* ------------------------------------------------------------------------
\* Data sets and requests of the query specifications
\* ------------------------------------------------------------------------
DataRows ==
    [user_id : Users, title : Titles, status : {"ready"},
     visibility : {"public", "private"}, created_at : {0}, file_size : {1}]

\* created_at follows the id: rows are stamped when they are inserted.
Stamped(f) == [v \in DOMAIN f |-> [f[v] EXCEPT !.created_at = v]]

DataSets == UNION {{Stamped(f) : f \in [1..n -> DataRows]} : n \in 0..MaxRows}

BulkRow(v) ==
    [user_id |-> "u1", title |-> <<"x">>, status |-> "ready",
     visibility |-> "public", created_at |-> v, file_size |-> 1]

BulkSets == {[v \in 1..n |-> BulkRow(v)] : n \in 0..MaxTotal}

Callers == Users \cup {NoUser}

ListOptionChoices ==
    [status : {Absent, "ready"}, visibility : {Absent, "public", "private"},
     tags : {<<>>, <<<<"T">>>>}, search : {<<>>, <<"x">>},
     sortBy : {"created_at", "title"}, sortOrder : {"asc", "desc"},
     limit : 1..MaxListLimit, createdAfter : {0}]

SearchOptionChoices ==
    {o \in ListOptionChoices :
        /\ o.search # <<>>
        /\ o.status = Absent /\ o.sortBy = "created_at" /\ o.sortOrder = "desc"}

BulkListOptions ==
    {[DefaultOptions EXCEPT !.limit = l, !.sortOrder = d] :
        l \in 1..MaxLimit, d \in {"asc", "desc"}}

BulkSearchOptions ==
    {[DefaultOptions EXCEPT !.limit = l, !.search = <<"x">>] : l \in 1..MaxLimit}

StoreIdle ==
    /\ req = [p \in Procs |-> Idle]
    /\ ops = 0

UploadIdle ==
    /\ upload_sessions = <<>>
    /\ now = 0
    /\ fin = [h \in Handlers |-> NoCall]

\* A store that holds the rows of data and some associations with the seeded
\* tag, with the counters the triggers have kept.
Holds(data, tagged) ==
    /\ video_content = data
    /\ tags = SeedTags
    /\ video_tags = {<<v, <<"T">>>> : v \in tagged}
    /\ video_views = <<>>
    /\ usage_count = [t \in TagNames |->
                         Cardinality({r \in video_tags : r[2] = t})]
    /\ nextId = Len(data) + 1
    /\ StoreIdle
    /\ UploadIdle
    /\ query = NoQuery

ListInit == \E data \in DataSets : \E tagged \in SUBSET DOMAIN data :
    Holds(data, tagged)

ListNext ==
    \/ \E u \in Callers, o \in ListOptionChoices : listVideoContent(u, o)
    \/ \E u \in Callers, o \in SearchOptionChoices : searchVideoContent(u, o)
    \/ \E u \in Callers, id \in 1..(MaxRows + 1) : GetContent(u, id)

SpecList == ListInit /\ [][ListNext]_vars

PageInit == \E data \in BulkSets : Holds(data, {})

PageNext ==
    \/ \E u \in Callers, o \in BulkListOptions : listVideoContent(u, o)
    \/ \E u \in Callers, o \in BulkSearchOptions : searchVideoContent(u, o)

SpecPage == PageInit /\ [][PageNext]_vars

\* ------------------------------------------------------------------------
\* Specification of the content store
\* ------------------------------------------------------------------------
Init ==
    /\ video_content = [v \in 1..MaxVideos |-> NoRow]
    /\ tags = SeedTags
    /\ usage_count = [t \in TagNames |-> 0]
    /\ video_tags = {}
    /\ video_views = <<>>
    /\ nextId = 1
    /\ StoreIdle
    /\ UploadIdle
    /\ query = NoQuery

\* What the second, concurrent connection is given to do: requests of one
\* owner, which is the case the store's locking is about.
ConcurrentUsers == {"u1"}
ConcurrentFields == {{}, {<<"status", "ready">>}}

UsersOf(p) == IF p = "p1" THEN Users ELSE ConcurrentUsers
FieldsOf(p) == IF p = "p1" THEN FieldChoices ELSE ConcurrentFields
VisibilitiesOf(p) == IF p = "p1" THEN {Absent, "public", "unlisted"} ELSE {Absent}

Next ==
    \/ \E p \in Procs : \E u \in UsersOf(p), v \in 1..MaxVideos,
          f \in FieldsOf(p), tg \in TagChoices : StartUpdate(p, u, v, f, tg)
    \/ \E p \in Procs : UpdateRow(p)
    \/ \E p \in Procs : \E u \in UsersOf(p), vis \in VisibilitiesOf(p),
          tg \in TagChoices \ {NoTags} :
            StartCreate(p, u, <<"x">>, vis, Absent, tg, Size(1))
    \/ \E p \in Procs : InsertContent(p)
    \/ \E p \in Procs : DeleteTags(p)
    \/ \E p \in Procs : DeleteTagsBlock(p)
    \/ \E p \in Procs : DeleteTagsResume(p)
    \/ \E p \in Procs : EnsureTags(p)
    \/ \E p \in Procs : InsertTags(p)
    \/ \E p \in Procs : Commit(p)
    \/ \E p \in Procs : GetAfterUpdate(p)
    \/ \E p \in Procs : Fail(p)
    \/ \E p \in Procs : \E u \in UsersOf(p), v \in 1..MaxVideos :
          DeleteVideoContent(p, u, v)

Spec == Init /\ [][Next]_vars

\* C1: every tag's usage_count equals the number of video_tags rows that
\* reference the tag.
LiveAssociations(t) == Cardinality({r \in video_tags : r[2] = t})

C1_TagCountConsistent ==
    \A t \in TagNames : usage_count[t] = LiveAssociations(t)

C1_Witness ==
    /\ \E p \in Procs : req[p].op = "delete" /\ req[p].res = "true"
    /\ \E t \in TagNames : usage_count[t] >= 1 /\ LiveAssociations(t) >= 1
    /\ \E t \in tags \ SeedTags : usage_count[t] = 0

\* C2 (as stated): a step of an update or a delete whose caller is not the
\* owner of the record leaves the record's fields, its tag associations and
\* every tag usage count as they were.
Acts(p) == req'[p] # req[p] /\ req'[p].op \in {"update", "delete"}

NotOwner(p) ==
    /\ req'[p].id \in VideoIds
    /\ video_content[req'[p].id] # NoRow
    /\ video_content[req'[p].id].user_id # req'[p].user

C2_OnlyOwnerMutates ==
    [][\A p \in Procs : (Acts(p) /\ NotOwner(p)) =>
          /\ video_content'[req'[p].id] = video_content[req'[p].id]
          /\ {r \in video_tags' : r[1] = req'[p].id}
               = {r \in video_tags : r[1] = req'[p].id}
          /\ usage_count' = usage_count]_vars

\* C3: a private record is in no page that list or search returns to a
\* caller other than its owner, and get answers such a caller NotFound.
Returned == UNION {Range(query.got[i].items) : i \in DOMAIN query.got}

HiddenFrom(v, userId) ==
    /\ video_content[v] # NoRow
    /\ video_content[v].visibility = "private"
    /\ video_content[v].user_id # userId

TagUpdateStep(p) ==
    /\ req'[p] # req[p]
    /\ req[p].op = "update" /\ req[p].tags.given
    /\ req[p].pc \notin {"idle", "done"}

TagsReplaced(r) ==
    LET want == {<<r.id, n>> : n \in Range(r.tags.names) \cap tags'}
    IN /\ want \subseteq video_tags'
       /\ (r.del \cap video_tags') \subseteq want
       /\ r.cw => video_content'[r.id] = r.crow
       /\ \A t \in TagNames :
             usage_count'[t] = Cardinality({x \in video_tags' : x[2] = t})

C6_AtomicTagReplace ==
    [][\A p \in Procs : TagUpdateStep(p) =>
          IF req[p].pc = "commit" /\ req'[p].pc = "get"
          THEN TagsReplaced(req[p])
          ELSE UNCHANGED tables]_vars

\* An update has just committed a new tag for a record that had another one,
\* while the update of the other connection failed.
C6_Witness ==
    \E p \in Procs :
        /\ req[p].op = "update" /\ req[p].pc = "get"
        /\ req[p].tags.given /\ req[p].tags.names # <<>>
        /\ RowsOfVideo(video_tags, req[p].id)
              = {<<req[p].id, req[p].tags.names[1]>>}
        /\ \E t \in tags : usage_count[t] = 0
        /\ \E q \in Others(p) : req[q].op = "update" /\ req[q].res = "error"

\* C9 (as stated): when a caller has walked through all pages of a list or
\* search request, the pages together hold every matching record exactly once
\* and in the declared sort order.
RECURSIVE Concat(_)
Concat(pages) ==
    IF pages = <<>> THEN <<>> ELSE Head(pages).items \o Concat(Tail(pages))

WalkedAll ==
    /\ query.kind \in {"list", "search"}
    /\ ~query.got[Len(query.got)].hasNext

MatchingOfQuery ==
    IF query.kind = "list" THEN ListMatching(query.user, query.opts)
    ELSE SearchMatching(query.user, query.opts)

KeyOfQuery(v) ==
    IF query.kind = "list" THEN ListKey(v, query.opts.sortBy)
    ELSE SearchKey(v, query.opts)

InSortOrder(seq) ==
    \A i, j \in DOMAIN seq : i < j =>
        IF query.kind = "search" \/ query.opts.sortOrder = "desc"
        THEN KeyOfQuery(seq[i]) >= KeyOfQuery(seq[j])
        ELSE KeyOfQuery(seq[i]) <= KeyOfQuery(seq[j])

C9_PagesComplete ==
    WalkedAll =>
        LET all == Concat(query.got)
        IN /\ Range(all) = MatchingOfQuery
           /\ Len(all) = Cardinality(MatchingOfQuery)
           /\ InSortOrder(all)

\* C10: the response for page p with limit l over N matching records holds
\* the rows after the first (p - 1) * l in sort order, at most l of them, and
\* reports totalPages = ceil(N / l), hasNext = (p * l < N), hasPrev = (p > 1);
\* page 2 with limit 10 over 25 records holds records 11 to 20 and reports
\* totalPages = 3, hasNext and hasPrev.
Nth(M, k) ==
    CHOOSE v \in M :
        Cardinality({w \in M : IF query.kind = "search"
                                    \/ query.opts.sortOrder = "desc"
                                 THEN KeyOfQuery(w) > KeyOfQuery(v)
                                 ELSE KeyOfQuery(w) < KeyOfQuery(v)}) = k - 1

C10_PageOf(r, p) ==
    LET l == query.opts.limit
        M == MatchingOfQuery
        N == Cardinality(M)
        skipped == (p - 1) * l
    IN /\ r.page = p /\ r.limit = l /\ r.total = N
       /\ Len(r.items) = Max(0, Min(l, N - skipped))
       /\ \A k \in DOMAIN r.items : r.items[k] = Nth(M, skipped + k)
       /\ r.totalPages * l >= N /\ (r.totalPages - 1) * l < N
       /\ r.hasNext = (p * l < N)
       /\ r.hasPrev = (p > 1)
       /\ (p = 2 /\ l = 10 /\ N = 25) =>
             /\ r.items = [k \in 1..10 |-> Nth(M, 10 + k)]
             /\ r.totalPages = 3 /\ r.hasNext /\ r.hasPrev

C10_PageArithmetic ==
    query.kind \in {"list", "search"} =>
        \A p \in DOMAIN query.got : C10_PageOf(query.got[p], p)

C10_Witness ==
    /\ query.kind = "list"
    /\ query.opts.limit = 10 /\ query.opts.sortOrder = "asc"
    /\ Cardinality(MatchingOfQuery) = 25
    /\ Len(query.got) = 2
    /\ query.got[2].items = <<11, 12, 13, 14, 15, 16, 17, 18, 19, 20>>
    /\ query.got[2].totalPages = 3

\* ------------------------------------------------------------------------
\* Specification of the upload sessions
\* ------------------------------------------------------------------------
UploadInit ==
    /\ video_content = [v \in 1..MaxVideos |-> NoRow]
    /\ tags = SeedTags
    /\ usage_count = [t \in TagNames |-> 0]
    /\ video_tags = {}
    /\ video_views = <<>>
    /\ nextId = 1
    /\ StoreIdle
    /\ UploadIdle
    /\ query = NoQuery

UploadNext ==
    \/ \E u \in Users, n \in UploadSizes : GetUploadUrl(u, n)
    \/ Tick
    \/ \E h \in Handlers, u \in Users, s \in 0..MaxSessions,
          n \in UploadSizes : Complete(h, u, s, n)
    \/ \E h \in Handlers, u \in Users, s \in 0..MaxSessions,
          n \in UploadSizes : CompleteFixed(h, u, s, n)
    \/ \E h \in Handlers : VerifyFileExists(h)
    \/ \E h \in Handlers : CreateFromUpload(h)
    \/ \E h \in Handlers : CreateFails(h)
    \/ \E h \in Handlers : CleanUp(h)
    \/ \E h \in Handlers : CleanUpFails(h)

SpecUpload == UploadInit /\ [][UploadNext]_vars

\* C4 (as stated): whatever calls of POST /complete are made on an upload
\* session, one after the other or at the same time, at most one content
\* record is created for it.
ContentOf(s) ==
    {v \in VideoIds : video_content[v] # NoRow /\ video_content[v].filename = s}

C4_OneContentPerSession ==
    \A s \in DOMAIN upload_sessions : Cardinality(ContentOf(s)) <= 1

\* C5 (as stated): a call of POST /complete that arrives after a call on the
\* same session has answered 201 is answered Conflict.
C5_LaterFinalizeConflict ==
    \A h \in Handlers :
        (fin[h].pc = "done" /\ fin[h].later) => fin[h].res = "Conflict"

\* C7 (as stated): when a call of POST /complete that found its session ends,
\* either it has created a content record and the session is gone, or it has
\* created none and the session is still there.
EndsNow(h) == fin[h].pc # "done" /\ fin'[h].pc = "done"

SessionThere(s) == s \in DOMAIN upload_sessions' /\ upload_sessions'[s] # NoRow

C7_FinalizeAllOrNothing ==
    [][\A h \in Handlers : (EndsNow(h) /\ fin'[h].found) =>
          \/ fin'[h].created # 0 /\ ~SessionThere(fin'[h].session)
          \/ fin'[h].created = 0 /\ SessionThere(fin'[h].session)]_vars

\* C8 (as stated): a call of POST /complete creates a content record only if,
\* when it arrives, the session exists, belongs to the caller and has not
\* expired; every other call is answered NotFound and creates nothing.
C8_FinalizeNeedsValidSession ==
    \A h \in Handlers :
        /\ fin[h].created # 0 => fin[h].valid
        /\ (fin[h].pc = "done" /\ ~fin[h].valid) =>
              fin[h].res = "NotFound" /\ fin[h].created = 0

\* ------------------------------------------------------------------------
\* One caller at a time: the content routes and the store behind them
\* ------------------------------------------------------------------------
\* PUT /:id: 400 for a body without keys, else db.updateVideoContent.
PutContent(p, u, v, f, tg) ==
    IF f = {} /\ ~tg.given
    THEN /\ CanStart(p)
         /\ req' = [req EXCEPT ![p] =
                      Finished(NewRequest("update", u, v, f, tg), "BadRequest")]
         /\ ops' = ops + 1
         /\ UNCHANGED <<tables, nextId, aside>>
    ELSE StartUpdate(p, u, v, f, tg)

SeqTagLists ==
    {<<>>, <<<<"b">>>>, <<<<"t">>, <<"b">>>>, <<<<"T">>>>,
     <<<<"T">>, <<"a", " ", "b">>>>}

SeqTagChoices == {[given |-> TRUE, names |-> l] : l \in SeqTagLists}

SeqFields ==
    {{}, {<<"status", "uploading">>}, {<<"status", "processing">>}}

SeqSizes == {Size(1), Size(0), NullSize}

SeqNext ==
    \/ \E u \in Users, v \in 1..MaxVideos, f \in SeqFields,
          tg \in SeqTagChoices \cup {NoTags} : PutContent("p1", u, v, f, tg)
    \/ UpdateRow("p1")
    \/ \E vis \in {Absent, "public"}, tg \in SeqTagChoices,
          size \in SeqSizes :
            StartCreate("p1", "u1", <<"x">>, vis, Absent, tg, size)
    \/ \E vis \in {Absent, "public"}, tg \in SeqTagChoices,
          size \in SeqSizes :
            StartCreateNoTransaction("p1", "u1", <<"x">>, vis, Absent, tg, size)
    \/ InsertContent("p1")
    \/ DeleteTags("p1")
    \/ EnsureTags("p1")
    \/ InsertTags("p1")
    \/ Commit("p1")
    \/ GetAfterUpdate("p1")
    \/ Fail("p1")
    \/ \E u \in Users, v \in 1..MaxVideos : DeleteVideoContent("p1", u, v)
    \/ \E u \in Callers, id \in 1..MaxVideos :
          Free("p1") /\ GetContent(u, id)

SpecSeq == Init /\ [][SeqNext]_vars

\* ------------------------------------------------------------------------
\* listVideoContent / searchVideoContent next to writers: the count query
\* and the data query are two statements of one client outside a
\* transaction, each with the snapshot of its own start.
\* ------------------------------------------------------------------------
CountOptions ==
    {[DefaultOptions EXCEPT !.limit = l, !.search = t] :
        l \in 1..MaxListLimit, t \in {<<>>, <<"x">>}}

KindOf(o) == IF o.search = <<>> THEN "list" ELSE "search"

\* SELECT COUNT(DISTINCT vc.id) as total ...
CountQuery(userId, o) ==
    /\ query.res # "counting"
    /\ query' = [NoQuery EXCEPT
                    !.kind = KindOf(o), !.user = userId, !.opts = o,
                    !.res = "counting",
                    !.total = Cardinality(IF KindOf(o) = "list"
                                          THEN ListMatching(userId, o)
                                          ELSE SearchMatching(userId, o))]
    /\ UNCHANGED <<tables, req, nextId, ops, upload_sessions, now, fin>>

\* SELECT vc.*, ... LIMIT $n OFFSET $n+1, and the PaginatedResponse built
\* from its rows and the total counted before.
DataQuery ==
    /\ query.res = "counting"
    /\ \E ordered \in (IF query.kind = "list"
                        THEN ListOrders(query.user, query.opts)
                        ELSE SearchOrders(query.user, query.opts)) :
          query' = [query EXCEPT
                      !.res = "",
                      !.got = <<PageResponse(ordered, 1, query.opts.limit,
                                             query.total)>>]
    /\ UNCHANGED <<tables, req, nextId, ops, upload_sessions, now, fin>>

CountNext ==
    \/ \E u \in Callers, o \in CountOptions : CountQuery(u, o)
    \/ DataQuery
    \/ \E vis \in {Absent, "public"} :
          StartCreate("p1", "u1", <<"x">>, vis, Absent, NoTags, Size(1))
    \/ InsertContent("p1")
    \/ Commit("p1")
    \/ \E v \in 1..MaxVideos : DeleteVideoContent("p1", "u1", v)

SpecCount == Init /\ [][CountNext]_vars

\* ------------------------------------------------------------------------
\* DatabaseService.connect and DatabaseService.healthCheck
\* ------------------------------------------------------------------------
ProbeKinds == {"connect", "healthCheck"}

\* What the probe query (SELECT version() ..., SELECT 1 as health_check)
\* ends with.
ProbeOutcomes == {"ok", "query failed"}

\* const client = await this.pool.connect(), inside the try block.  A probe
\* that finds no client in the pool waits for connectionTimeoutMillis and
\* fails holding nothing, which changes no state.
StartProbe(p, kind) ==
    /\ CanStart(p)
    /\ req' = [req EXCEPT ![p] =
                 [NewRequest(kind, NoUser, 0, {}, NoTags) EXCEPT
                     !.pc = "probe"]]
    /\ ops' = ops + 1
    /\ UNCHANGED <<tables, nextId, aside>>

\* await client.query(...); client.release(): the release follows the query
\* inside the try block, and the catch block (rethrow in connect, the
\* answer healthy: false in healthCheck) has none.
ProbeQuery(p, outcome) ==
    LET r == req[p]
    IN /\ r.pc = "probe"
       /\ req' = [req EXCEPT ![p] =
                    IF outcome = "ok"
                    THEN release([r EXCEPT !.pc = "done", !.res = "ok"])
                    ELSE [r EXCEPT !.pc = "done",
                                   !.res = IF r.op = "connect" THEN "error"
                                           ELSE "unhealthy"]]
       /\ UNCHANGED <<tables, nextId, ops, aside>>

\* The probes and creates of records on the clients of one pool.
ProbeNext ==
    \/ \E p \in Procs, kind \in ProbeKinds : StartProbe(p, kind)
    \/ \E p \in Procs, outcome \in ProbeOutcomes : ProbeQuery(p, outcome)
    \/ \E p \in Procs, vis \in {Absent, "public"} :
          StartCreate(p, "u1", <<"x">>, vis, Absent, NoTags, Size(1))
    \/ \E p \in Procs : InsertContent(p)
    \/ \E p \in Procs : Commit(p)

SpecProbe == Init /\ [][ProbeNext]_vars

\* ------------------------------------------------------------------------
\* PUT /api/content/:id: validate(updateVideoContentSchema), then the store
\* ------------------------------------------------------------------------
\* The keys of body in updateVideoContentSchema (tags is carried apart).
updateVideoContentSchema ==
    {"title", "description", "visibility", "thumbnailUrl", "status"}

\* What schema.parseAsync returns for a body: z.object drops the keys it
\* does not know and does not reject them.
ParseBody(schema, body) == {kv \in body : kv[1] \in schema}

\* validate(schema): the value parseAsync returns is dropped and next() runs
\* with req.body as it came in.
validate(schema, body) ==
    LET parsed == ParseBody(schema, body)
    IN IF parsed \subseteq body THEN body ELSE parsed

\* Bodies of a PUT request: none, a key of the schema, and keys the schema
\* does not name.
PutBodies ==
    {{}, {<<"visibility", "public">>}, {<<"userId", "u2">>},
     {<<"createdAt", 0>>}}

\* router.put('/:id', authenticateToken, validate(...), handler)
PutRoute(p, u, v, body) ==
    PutContent(p, u, v, validate(updateVideoContentSchema, body), NoTags)

PutNext ==
    \/ \E u \in Users, vis \in {Absent, "public"} :
          StartCreate("p1", u, <<"x">>, vis, Absent, NoTags, Size(1))
    \/ InsertContent("p1")
    \/ Commit("p1")
    \/ \E u \in Users, v \in 1..MaxVideos, body \in PutBodies :
          PutRoute("p1", u, v, body)
    \/ UpdateRow("p1")
    \/ GetAfterUpdate("p1")

SpecPut == Init /\ [][PutNext]_vars

\* ------------------------------------------------------------------------
\* GET /api/content: the query schema, then the store
\* ------------------------------------------------------------------------
\* videoQuerySchema of src/schemas/index.ts
videoQuerySchema ==
    [status |-> {"uploading", "processing", "ready", "failed"},
     visibility |-> {"public", "private", "unlisted"},
     sortBy |-> {"created_at", "updated_at", "title", "duration", "file_size"}]

\* videoListQuerySchema of the content routes
videoListQuerySchema ==
    [status |-> {"uploading", "processing", "completed", "failed"},
     visibility |-> {"public", "private", "unlisted"},
     sortBy |-> {"created_at", "updated_at", "title", "file_size", "duration"}]

\* schema.parse(req.query): z.enum(...).optional() for status and visibility,
\* z.enum(...).default('created_at') for sortBy
Parses(schema, q) ==
    /\ q.status = Absent \/ q.status \in schema.status
    /\ q.visibility = Absent \/ q.visibility \in schema.visibility
    /\ q.sortBy \in schema.sortBy

\* The query strings a caller may send.
RawQueries ==
    {[DefaultOptions EXCEPT !.status = st, !.visibility = vis, !.sortBy = sb,
                            !.limit = MaxListLimit, !.createdAfter = ca] :
        st \in {Absent, "ready", "completed", "bogus"},
        vis \in {Absent, "public", "bogus"},
        sb \in {"created_at", "title", "bogus"},
        ca \in 0..1}

\* router.get('/') behind a query schema: 400 from the middleware, or
\* db.listVideoContent(userId, req.query).
ListRoute(schema, userId, q) ==
    IF Parses(schema, q)
    THEN listVideoContent(userId, q)
    ELSE /\ query.kind = "none"
         /\ query' = [NoQuery EXCEPT !.kind = "list", !.user = userId,
                                     !.opts = q, !.res = "BadRequest"]
         /\ UNCHANGED <<tables, req, nextId, ops, upload_sessions, now, fin>>

\* validateRequest({ query: videoQuerySchema })
GetList(userId, q) == ListRoute(videoQuerySchema, userId, q)

\* validate(videoListQuerySchema)
GetListContentRoutes(userId, q) == ListRoute(videoListQuerySchema, userId, q)

RouteNext ==
    \/ \E u \in Callers, q \in RawQueries : GetList(u, q)
    \/ \E u \in Callers, q \in RawQueries : GetListContentRoutes(u, q)

SpecRoute == ListInit /\ [][RouteNext]_vars

\* ------------------------------------------------------------------------
\* createTag on two connections
\* ------------------------------------------------------------------------
\* INSERT INTO tags (name, slug, ...) ON CONFLICT (slug) DO NOTHING, first
\* part: the statement looks the slug up in the index the ON CONFLICT clause
\* names; a row with the slug ends the statement with nothing inserted.
CreateTag(p, name) ==
    LET r == NewRequest("tag", NoUser, 0, {},
                        [given |-> TRUE, names |-> <<name>>])
    IN /\ CanStart(p)
       /\ req' = [req EXCEPT ![p] =
                    IF TagOfSlug(name, tags) # {}
                    THEN release([r EXCEPT !.pc = "done", !.res = "ok"])
                    ELSE [r EXCEPT !.pc = "inserttag"]]
       /\ ops' = ops + 1
       /\ UNCHANGED <<tables, nextId, aside>>

\* What the insertion of the row into the unique indexes of tags meets, in
\* the order of the indexes (name, then slug): a row with the name raises
\* "duplicate key value violates unique constraint", a row with the slug is
\* the conflict that DO NOTHING absorbs.
InsertTagRow(known, name) ==
    IF name \in known THEN "duplicate key"
    ELSE IF TagOfSlug(name, known) # {} THEN "nothing"
    ELSE "inserted"

\* Second part of the statement, and its commit.
CreateTagInsert(p) ==
    LET r == req[p]
        name == r.tags.names[1]
        met == InsertTagRow(tags, name)
    IN /\ r.op = "tag" /\ r.pc = "inserttag"
       /\ tags' = IF met = "inserted" THEN tags \cup {name} ELSE tags
       /\ req' = [req EXCEPT ![p] =
                    release([r EXCEPT
                                !.pc = "done",
                                !.res = IF met = "duplicate key" THEN "error"
                                        ELSE "ok"])]
       /\ UNCHANGED <<video_content, usage_count, video_tags, video_views,
                      nextId, ops, aside>>

TagsNext ==
    \/ \E p \in Procs, name \in TagNames : CreateTag(p, name)
    \/ \E p \in Procs : CreateTagInsert(p)

SpecTags == Init /\ [][TagsNext]_vars

\* ------------------------------------------------------------------------
\* The build whose routes keep the records in the Map videoStorage
\* ------------------------------------------------------------------------
MemoryInit == Init

MemoryNext ==
    \/ \E u \in Users, vis \in Visibilities \cup {Absent} :
          CompleteInMemory(u, vis)
    \/ \E u \in Callers, id \in 1..MaxVideos : GetContentInMemory(u, id)

SpecMemory == MemoryInit /\ [][MemoryNext]_vars

\* C11 (as stated): a get of a private or unlisted record by someone who is
\* not its owner answers exactly what a get of an absent id answers: not
\* found, and no view event.
C11_ForbiddenLikeAbsent ==
    (/\ query.kind = "get"
     /\ query.id \in VideoIds
     /\ video_content[query.id] # NoRow
     /\ video_content[query.id].visibility \in {"private", "unlisted"}
     /\ video_content[query.id].user_id # query.user)
        => query.res = "NotFound" /\ video_views = <<>>

\* C12 (as stated): a delete or an update of a record that does not exist, or
\* that belongs to someone else, is answered false (delete) or NotFound
\* (update) in both cases alike.  An update that threw, or that the route
\* turned away, is left aside.
Answers(p) == req'[p] # req[p] /\ req'[p].pc = "done"

NotThere(r) == r.id \notin VideoIds \/ video_content[r.id] = NoRow

NotOwned(r) == ~NotThere(r) /\ video_content[r.id].user_id # r.user

C12_NotOwnedLikeAbsent ==
    [][\A p \in Procs :
          (/\ Answers(p)
           /\ req'[p].op \in {"update", "delete"}
           /\ NotThere(req'[p]) \/ NotOwned(req'[p]))
             => IF req'[p].op = "delete" THEN req'[p].res = "false"
                ELSE req'[p].res \in {"null", "error", "BadRequest"}]_vars

\* C13: the delete of a record that has two tag associations and one view
\* event removes, in its one step, the record, both associations and the view
\* event, takes exactly one from the usage count of each of the two tags and
\* of no other, and leaves every tag row in place.
ViewsOf(views, v) == {i \in DOMAIN views : views[i].video_id = v}

Deletes(p, v) ==
    /\ Answers(p)
    /\ req'[p].op = "delete" /\ req'[p].res = "true" /\ req'[p].id = v

C13_DeleteCascades ==
    [][\A p \in Procs : \A v \in VideoIds :
          (/\ Deletes(p, v)
           /\ Cardinality(RowsOfVideo(video_tags, v)) = 2
           /\ Cardinality(ViewsOf(video_views, v)) = 1)
             => /\ video_content'[v] = NoRow
                /\ \A w \in VideoIds \ {v} : video_content'[w] = video_content[w]
                /\ video_tags' = video_tags \ RowsOfVideo(video_tags, v)
                /\ ViewsOf(video_views', v) = {}
                /\ \A t \in TagNames :
                      usage_count'[t] = IF <<v, t>> \in video_tags
                                        THEN usage_count[t] - 1
                                        ELSE usage_count[t]
                /\ tags' = tags]_vars

\* A record was created with a seeded and a new tag, a get recorded a view of
\* it, and the delete has just removed it: both tags are there with count 0.
C13_Witness ==
    /\ ops = 2
    /\ req["p1"].op = "delete" /\ req["p1"].res = "true"
    /\ query.kind = "get" /\ query.track = "recorded"
    /\ query.id = req["p1"].id
    /\ video_views = <<>>
    /\ video_tags = {}
    /\ {<<"T">>, <<"a", " ", "b">>} \subseteq tags
    /\ usage_count[<<"T">>] = 0 /\ usage_count[<<"a", " ", "b">>] = 0

\* C14 (as stated): when a create has failed, the record it inserted is not
\* in the store and no tag association of it is.
FailedCreate(r) == r.op = "create" /\ r.pc = "done" /\ r.res = "error"

C14_CreateAllOrNothing ==
    \A p \in Procs :
        (FailedCreate(req[p]) /\ req[p].id \in VideoIds) =>
            /\ video_content[req[p].id] = NoRow
            /\ RowsOfVideo(video_tags, req[p].id) = {}

\* C15 (as stated): every stored record has a file size greater than zero.
C15_FileSizePositive ==
    \A v \in VideoIds :
        video_content[v] # NoRow => video_content[v].file_size > 0

\* C16 (as stated): an update without any field, sent by the owner of a
\* record, succeeds and changes nothing.
Owned(r) == ~NotThere(r) /\ video_content[r.id].user_id = r.user

C16_EmptyUpdateSucceeds ==
    [][\A p \in Procs :
          (/\ Answers(p)
           /\ req'[p].op = "update" /\ req'[p].empty
           /\ Owned(req'[p]))
             => req'[p].res = "ok" /\ UNCHANGED tables]_vars

\* C17 (as stated), with "t" for tutorial and "b" for business, whose slugs
\* are those of the seeded tags "T" (Tutorial) and "B" (Business): when the
\* first operation, a create with tags ["t", "b"], ends, the tag of each of
\* the two slugs has usage count 1 and is associated with the record; when an
\* update of that record to tags ["b"] then commits, the count of the first
\* tag is 0 and the count of the second is 1.
CreateEnds(p) ==
    req[p].op = "create" /\ req[p].pc = "commit" /\ req'[p].res = "ok"

UpdateCommits(p) ==
    req[p].op = "update" /\ req[p].pc = "commit" /\ req'[p].pc = "get"

C17_TagScenario ==
    [][\A p \in Procs :
          /\ (/\ CreateEnds(p)
               /\ ops = 1
               /\ req[p].tags.names = <<<<"t">>, <<"b">>>>)
                => \A n \in {<<"t">>, <<"b">>} :
                      \E t \in TagOfSlug(n, tags') :
                          /\ usage_count'[t] = 1
                          /\ <<req'[p].id, t>> \in video_tags'
          /\ (/\ UpdateCommits(p)
               /\ ops = 2
               /\ Owned(req[p])
               /\ req[p].tags.names = <<<<"b">>>>)
                => /\ \A t \in TagOfSlug(<<"t">>, tags') : usage_count'[t] = 0
                   /\ \E t \in TagOfSlug(<<"b">>, tags') :
                          /\ usage_count'[t] = 1
                          /\ <<req[p].id, t>> \in video_tags']_vars

\* C18 (as stated): no call of createTag fails, and no two tag rows have the
\* same slug, whatever calls were made one after the other or at the same
\* time.
C18_EnsureIdempotent ==
    /\ \A p \in Procs :
          (req[p].op = "tag" /\ req[p].pc = "done") => req[p].res = "ok"
    /\ \A p \in Procs :
          (req[p].op = "tag" /\ req[p].pc = "done") =>
              Cardinality(TagOfSlug(req[p].tags.names[1], tags)) = 1

\* C19 (as stated): no step takes a record whose status is processing, ready
\* or failed back to uploading.
C19_StatusForward ==
    [][\A v \in VideoIds :
          (/\ video_content[v] # NoRow
           /\ video_content'[v] # NoRow
           /\ video_content[v].status \in {"processing", "ready", "failed"})
             => video_content'[v].status # "uploading"]_vars

\* C20: a get whose view event could not be recorded, because no connection
\* could be acquired or because the INSERT failed, still answers with the
\* record; the event is simply missing.
TrackingFailed == query.kind = "get" /\ query.track \in TrackOutcomes \ {"recorded"}

C20_ViewFailureSilent ==
    TrackingFailed => query.res = "OK" /\ ViewsOf(video_views, query.id) = {}

\* An anonymous get of a public record met a pool without a free connection.
C20_Witness ==
    /\ query.kind = "get" /\ query.track = "connect fails"
    /\ query.user = NoUser
    /\ getVideoContent(query.id, query.user) # NoRow
    /\ query.res = "OK"

\* C21 (as stated): a list or search request without status, visibility and
\* tag filter (and, for list, without search text) reports and returns the
\* records the caller may read: the public ones and the caller's own.
NoOtherFilter ==
    /\ query.opts.status = Absent
    /\ query.opts.visibility = Absent
    /\ query.opts.tags = <<>>
    /\ query.kind = "list" => query.opts.search = <<>>

Readable(userId) ==
    {v \in VideoIds : /\ video_content[v] # NoRow
                      /\ CanRead(video_content[v], userId)
                      /\ query.kind = "search" =>
                            TextMatch(video_content[v], query.opts.search)}

C21_ScopeOfListAndSearch ==
    (query.kind \in {"list", "search"} /\ NoOtherFilter) =>
        /\ query.got[1].total = Cardinality(Readable(query.user))
        /\ Range(Concat(query.got)) \subseteq Readable(query.user)
        /\ query.got[1].total <= query.opts.limit =>
              Range(query.got[1].items) = Readable(query.user)

\* C22 (as stated): a list request whose status, visibility or sortBy is not
\* one of the enumerated values is answered 400 and no query reaches the
\* store.
SortColumns == {"created_at", "updated_at", "title", "file_size", "duration"}

OutsideEnums(q) ==
    \/ q.status \notin Statuses \cup {Absent}
    \/ q.visibility \notin Visibilities \cup {Absent}
    \/ q.sortBy \notin SortColumns

C22_InvalidRejected ==
    (query.kind = "list" /\ OutsideEnums(query.opts)) =>
        query.res = "BadRequest" /\ query.got = <<>>

\* C23 (as stated): the records a list response counts are exactly those the
\* caller may read and that satisfy every predicate of the request: status,
\* visibility, tag membership, search text and the bound on the creation
\* date.
SatisfiesAll(v, userId, o) ==
    LET row == video_content[v]
    IN /\ row # NoRow
       /\ CanRead(row, userId)
       /\ o.status # Absent => row.status = o.status
       /\ o.visibility # Absent => row.visibility = o.visibility
       /\ o.tags # <<>> => HasAnyTag(v, o.tags)
       /\ o.search # <<>> => TextMatch(row, o.search)
       /\ o.createdAfter # 0 => row.created_at > o.createdAfter

C23_ListIsConjunction ==
    (query.kind = "list" /\ query.got # <<>>) =>
        LET want == {v \in VideoIds : SatisfiesAll(v, query.user, query.opts)}
        IN /\ query.got[1].total = Cardinality(want)
           /\ Range(query.got[1].items) = want

\* ------------------------------------------------------------------------
\* C24: every repository operation that draws a connection from the pool
\* gives it back on every exit path (success, early return, validation
\* failure, thrown error): a connection whose operation has ended, or that
\* runs none, holds no client, and a running operation holds exactly one.
\* ------------------------------------------------------------------------
C24_ConnectionReleased ==
    \A p \in Procs : req[p].client <=> ~Free(p)

\* Both connections ended an operation, one by a thrown error and one by
\* the early return of an update that matched no row, and both gave the
\* client back.
C24_Witness ==
    /\ req["p1"].pc = "done" /\ req["p1"].res = "error"
    /\ ~req["p1"].client
    /\ req["p2"].pc = "done" /\ req["p2"].op = "update"
    /\ req["p2"].res = "null"
    /\ ~req["p2"].client

\* ------------------------------------------------------------------------
\* C25 (as stated): when two concurrent updates each replace the tag set of
\* the same record and both have committed, the record's tag set is the set
\* one of the two supplied (last write wins), never a mixture of both, and
\* the usage counts match the associations.
\* ------------------------------------------------------------------------
\* The associations the update of r asked for, for the names that have a
\* tag row.
Supplied(r) == {<<r.id, n>> : n \in Range(r.tags.names) \cap tags}

BothCommitted(v) ==
    \A p \in Procs :
        /\ req[p].op = "update" /\ req[p].pc = "get"
        /\ req[p].id = v /\ req[p].tags.given

C25_LastWriteWins ==
    \A v \in 1..MaxVideos :
        BothCommitted(v) =>
            /\ \E p \in Procs : RowsOfVideo(video_tags, v) = Supplied(req[p])
            /\ \A t \in TagNames : usage_count[t] = LiveAssociations(t)

\* ------------------------------------------------------------------------
\* C26 (as stated): when a create or an update that supplies the tag names T
\* commits, the record is associated with exactly one tag for each distinct
\* slug derived from T, also when a tag with the same slug and a differently
\* written name is already there.
\* ------------------------------------------------------------------------
SlugsOf(names) == {slugOf(n) : n \in names}

OneTagPerSlug(v, names) ==
    LET assoc == {x[2] : x \in RowsOfVideo(video_tags', v)}
    IN /\ SlugsOf(assoc) = SlugsOf(Range(names))
       /\ Cardinality(assoc) = Cardinality(SlugsOf(Range(names)))

C26_OneTagPerSlug ==
    [][\A p \in Procs :
          (/\ CreateEnds(p) \/ (UpdateCommits(p) /\ Owned(req[p]))
           /\ req[p].tags.given)
              => OneTagPerSlug(req[p].id, req[p].tags.names)]_vars

\* ------------------------------------------------------------------------
\* C27 (as stated): no update changes a record's owner identifier or its
\* creation timestamp, whatever keys the field map of the request contains.
\* ------------------------------------------------------------------------
C27_UpdateKeepsOwnerAndCreation ==
    [][\A v \in VideoIds :
          (video_content[v] # NoRow /\ video_content'[v] # NoRow)
             => /\ video_content'[v].user_id = video_content[v].user_id
                /\ video_content'[v].created_at = video_content[v].created_at
      ]_vars

\* ------------------------------------------------------------------------
\* C30 (as stated): the Content that a successful create returns carries
\* the tag set that the call stored for the record.
\* ------------------------------------------------------------------------
C30_CreateReturnsStoredTags ==
    [][\A p \in Procs :
          CreateEnds(p) =>
              req'[p].ret = {x[2] : x \in RowsOfVideo(video_tags', req'[p].id)}
      ]_vars

\* ------------------------------------------------------------------------
\* C29 (as stated): connect and healthCheck return their client to the pool
\* also when the probe query fails, so that the probes that have ended hold
\* no client of the pool.
\* ------------------------------------------------------------------------
C29_ProbeReleases ==
    \A p \in Procs :
        (req[p].op \in ProbeKinds /\ req[p].pc = "done") => ~req[p].client

\* ------------------------------------------------------------------------
\* C28 (as stated): the total that a list or search call reports, and
\* totalPages and hasNext with it, describe the set its items are taken
\* from, also when creates and deletes of other requests commit between
\* the count query and the data query.
\* ------------------------------------------------------------------------
\* The records the data query of the call in flight selects from.
SelectedNow ==
    IF query.kind = "list" THEN ListMatching(query.user, query.opts)
    ELSE SearchMatching(query.user, query.opts)

C28_TotalDescribesItems ==
    [][(query.res = "counting" /\ query'.res = "") =>
          LET r == query'.got[1]
              n == Cardinality(SelectedNow)
          IN /\ r.total = n
             /\ r.totalPages = TotalPages(n, r.limit)
             /\ r.hasNext = HasNext(1, r.limit, n)]_vars

====
